---- MODULE Spec2Model ----
(***************************************************************************)
(* Model of clusterpeers.go: the Cluster (peer registry, quorum counter,   *)
(* exclusion lock), the connectionManager coordinator, the                 *)
(* establishConnection workers, the heartbeat detector, the broadcasts,    *)
(* the wrapReply collector and the identity resolution of ConstructCluster.*)
(***************************************************************************)
EXTENDS Integers, Sequences, FiniteSets, TLC

\* ---------------------------------------------------------------- bounds
\* Number of entries of the address table (disk.RetrieveAddresses()).
NumPeers == 3
\* Number of Connect and BroadcastHeartbeat calls made in a run.
MaxRounds == 2
\* Number of other public operations called in a run.
MaxCalls == 1
\* The same two, in the runs of SpecQuorum.
QuorumRounds == 1
QuorumCalls == 3
\* Exclusion filters mark role-ids up to this one.
MaxFilterId == 2
\* Capacity of registerBadConnection in the model (make(chan uint64, 16) in
\* the source; the model scales the buffer so that a full buffer happens).
QueueCap == 2
\* skipPromiseCount is a uint64: arithmetic is modulo 2^64 in the source and
\* modulo UintMod in the model.
UintMod == 8
\* A worker's count of failed dials saturates here.
MaxFails == 1
\* The largest number of requests a broadcast has sent when it starts wrapReply.
MaxSent == 3
\* time.After(2*time.Second) of wrapReply, in ticks of the clock (one second).
CollectWindow == 2
\* Number of Connect and BroadcastHeartbeat calls in the runs of SpecRepair.
RepairRounds == 2
\* The clock of the runs of SpecCollect stops here.
MaxClock == 7
\* Keys of the address tables ConstructCluster is run on: 0..MaxKey.
MaxKey == 2
\* Host parts of the addresses: 0 (the empty string) and 1..MaxHost.
MaxHost == 2

\* Keys of the address table: the cluster members.
Members == 1..NumPeers
\* Role-ids a caller may pass: the members and one id that is no member.
RoleIds == 1..(NumPeers + 1)
\* The exclusion filters a caller may pass: the role-ids marked true.
Filters == SUBSET (1..MaxFilterId)

VARIABLES
    nodes,                  \* Cluster.nodes: role-id -> Peer
    skipPromiseCount,       \* Cluster.skipPromiseCount
    exclude,                \* Cluster.exclude: the function holding the mutex
    registerBadConnection,  \* Cluster.registerBadConnection (buffered channel)
    establishing,           \* connectionManager's establishing map
    workers,                \* establishConnection goroutines, per role-id
    connectPc, connectTodo, connectCur, connectQueued,   \* Connect
    hbPc, hbPeerCount, endpoint, received, failures, replyCount,
    hbTodo, hbCur, hbPre, hbPreSkip, hbQueued,   \* BroadcastHeartbeat
    result,                 \* the returned values of a locked one-shot operation
    notifyPc, notifyRole,                        \* NotifyOfSuccess
    roundsLeft,             \* Connect and BroadcastHeartbeat calls still to come
    callsLeft,              \* other public operations still to come
    wrPc, wrPeerCount, wrCap, wrPending, wrEndpoint, wrReplyCount, wrCur,
    wrDeadline, wrConsumed, wrForward, wrTaken, clock,   \* wrapReply
    ccPc, ccAddresses, ccThisAddress, ccArg, ccRoleId, ccTodo  \* ConstructCluster

vars == <<nodes, skipPromiseCount, exclude, registerBadConnection, establishing,
          workers,
          connectPc, connectTodo, connectCur, connectQueued,
          hbPc, hbPeerCount, endpoint, received, failures, replyCount,
          hbTodo, hbCur, hbPre, hbPreSkip, hbQueued,
          result, notifyPc, notifyRole, roundsLeft, callsLeft,
          wrPc, wrPeerCount, wrCap, wrPending, wrEndpoint, wrReplyCount, wrCur,
          wrDeadline, wrConsumed, wrForward, wrTaken, clock,
          ccPc, ccAddresses, ccThisAddress, ccArg, ccRoleId, ccTodo>>

\* ------------------------------------------------------------ data model
\* The zero value of Peer, which a map lookup of a missing key returns.
\* address 0 is the empty string; comm 0 is the nil *rpc.Client.
ZeroPeer == [address |-> 0, comm |-> 0, requirePromise |-> FALSE]

\* this.nodes[roleId] as an expression.
Lookup(ns, roleId) == IF roleId \in DOMAIN ns THEN ns[roleId] ELSE ZeroPeer

\* this.nodes[roleId] = peer.
Store(ns, roleId, peer) ==
    [k \in (DOMAIN ns) \cup {roleId} |-> IF k = roleId THEN peer ELSE ns[k]]

\* The peers map ConstructCluster builds from the address table.
InitialPeers ==
    [id \in Members |-> [address |-> id, comm |-> 0, requirePromise |-> TRUE]]

\* uint64 increment and decrement.
Inc(n) == (n + 1) % UintMod
Dec(n) == (n + UintMod - 1) % UintMod

NoResult == [name |-> "none", filter |-> {}, sent |-> {}, count |-> 0]

RemoveAt(s, i) == SubSeq(s, 1, i - 1) \o SubSeq(s, i + 1, Len(s))

Min(a, b) == IF a < b THEN a ELSE b

\* ------------------------------------------------------------------ Init
\* The peers map built from an address table (lines 39-48): the address of a
\* peer is stood for by its host part.
PeersOf(addresses) ==
    [id \in DOMAIN addresses |->
        [address |-> addresses[id].host, comm |-> 0, requirePromise |-> TRUE]]

\* The Cluster ConstructCluster builds (lines 81-87) around a peers map, with
\* connectionManager started and no call in progress.
InitClusterOf(peers) ==
    /\ nodes = peers
    /\ skipPromiseCount = 0
    /\ exclude = "none"
    /\ registerBadConnection = << >>
    /\ establishing = [id \in RoleIds |-> FALSE]
    /\ workers = [id \in RoleIds |-> << >>]
    /\ connectPc = "idle" /\ connectTodo = {} /\ connectCur = 0
    /\ connectQueued = {}
    /\ hbPc = "idle" /\ hbPeerCount = 0 /\ endpoint = {} /\ received = {}
    /\ failures = FALSE /\ replyCount = 0 /\ hbTodo = {} /\ hbCur = 0
    /\ hbPre = InitialPeers /\ hbPreSkip = 0 /\ hbQueued = {}
    /\ result = NoResult
    /\ notifyPc = "idle" /\ notifyRole = 0

InitCluster == InitClusterOf(InitialPeers)

\* No wrapReply goroutine has been started.
WrapIdle ==
    /\ wrPc = "idle" /\ wrPeerCount = 0 /\ wrCap = 0
    /\ wrPending = {} /\ wrEndpoint = {} /\ wrReplyCount = 0 /\ wrCur = 0
    /\ wrDeadline = 0 /\ wrConsumed = {} /\ wrForward = << >> /\ wrTaken = 0
    /\ clock = 0

\* The address table InitialPeers is built from: the entry of key id has the
\* host id. ConstructCluster has returned role-id 1, found from the local
\* address 1.
MemberAddresses == [id \in Members |-> [host |-> id, malformed |-> FALSE]]

ConstructReturned ==
    /\ ccPc = "returned" /\ ccAddresses = MemberAddresses
    /\ ccThisAddress = 1 /\ ccArg = 0 /\ ccRoleId = 1 /\ ccTodo = {}

Init ==
    /\ InitCluster
    /\ roundsLeft = MaxRounds
    /\ callsLeft = MaxCalls
    /\ WrapIdle
    /\ ConstructReturned

regVars == <<nodes, skipPromiseCount>>
cmVars == <<establishing, workers>>
connectVars == <<connectPc, connectTodo, connectCur, connectQueued>>
hbVars == <<hbPc, hbPeerCount, endpoint, received, failures, replyCount,
            hbTodo, hbCur, hbPre, hbPreSkip, hbQueued>>
notifyVars == <<notifyPc, notifyRole>>
wrapVars == <<wrPc, wrPeerCount, wrCap, wrPending, wrEndpoint, wrReplyCount,
              wrCur, wrDeadline, wrConsumed, wrForward, wrTaken, clock>>
constructVars == <<ccPc, ccAddresses, ccThisAddress, ccArg, ccRoleId, ccTodo>>

\* The process has stopped: a panic or a fatal error of the runtime.
crashed == notifyPc \in {"panic", "fatal"}

\* rpc.Dial("tcp", address) can return a connection only for a real address.
DialCanSucceed(address) == address # 0

\* ------------------------------------------------------------- Connect
\* Lock(); the range over this.nodes starts.
Connect_Begin ==
    /\ ~crashed /\ roundsLeft > 0
    /\ connectPc = "idle" /\ exclude = "none"
    /\ exclude' = "Connect"
    /\ connectPc' = "range" /\ connectTodo' = DOMAIN nodes /\ connectCur' = 0
    /\ connectQueued' = {}
    /\ roundsLeft' = roundsLeft - 1
    /\ UNCHANGED <<regVars, registerBadConnection, cmVars, hbVars, result,
                   notifyVars, callsLeft, wrapVars, constructVars>>

\* The next key of the range (Go ranges a map in no fixed order); rpc.Dial is
\* entered with the lock held.
Connect_Dial(roleId) ==
    /\ ~crashed /\ connectPc = "range" /\ roleId \in connectTodo
    /\ connectPc' = "dial" /\ connectCur' = roleId
    /\ connectTodo' = connectTodo \ {roleId}
    /\ UNCHANGED <<connectQueued, regVars, exclude, registerBadConnection,
                   cmVars, hbVars, result, notifyVars, roundsLeft, callsLeft,
                   wrapVars, constructVars>>

\* err == nil: peer.comm = connection; this.nodes[roleId] = peer.
Connect_DialOk ==
    /\ ~crashed /\ connectPc = "dial"
    /\ DialCanSucceed(nodes[connectCur].address)
    /\ nodes' = Store(nodes, connectCur, [nodes[connectCur] EXCEPT !.comm = 1])
    /\ connectPc' = "range" /\ connectCur' = 0
    /\ UNCHANGED <<connectQueued, skipPromiseCount, exclude,
                   registerBadConnection, cmVars, connectTodo, hbVars, result,
                   notifyVars, roundsLeft, callsLeft, wrapVars,
                   constructVars>>

\* (variant: a failed dial is dropped, nothing is sent on registerBadConnection)
Connect_DialFail_Drops ==
    /\ ~crashed /\ connectPc = "dial"
    /\ connectPc' = "range" /\ connectCur' = 0
    /\ UNCHANGED <<connectQueued, regVars, exclude, registerBadConnection,
                   cmVars, connectTodo, hbVars, result, notifyVars,
                   roundsLeft, callsLeft, wrapVars, constructVars>>
\* err != nil: the send on registerBadConnection is next.
Connect_DialFail ==
    /\ ~crashed /\ connectPc = "dial"
    /\ connectPc' = "send"
    /\ UNCHANGED <<connectQueued, regVars, exclude, registerBadConnection,
                   cmVars, connectTodo, connectCur, hbVars, result,
                   notifyVars, roundsLeft, callsLeft, wrapVars,
                   constructVars>>

\* this.registerBadConnection <- roleId: blocks while the buffer is full.
Connect_Send ==
    /\ ~crashed /\ connectPc = "send"
    /\ Len(registerBadConnection) < QueueCap
    /\ registerBadConnection' = Append(registerBadConnection, connectCur)
    /\ connectQueued' = connectQueued \cup {connectCur}
    /\ connectPc' = "range" /\ connectCur' = 0
    /\ UNCHANGED <<regVars, exclude, cmVars, connectTodo, hbVars, result,
                   notifyVars, roundsLeft, callsLeft, wrapVars,
                   constructVars>>

\* The range is over: the deferred Unlock().
Connect_Return ==
    /\ ~crashed /\ connectPc = "range" /\ connectTodo = {}
    /\ connectPc' = "idle" /\ exclude' = "none" /\ connectQueued' = {}
    /\ UNCHANGED <<regVars, registerBadConnection, cmVars, connectTodo,
                   connectCur, hbVars, result, notifyVars, roundsLeft,
                   callsLeft, wrapVars, constructVars>>

\* --------------------------------------------------- connectionManager
\* (variant: the test of establishing left out)
ShouldLaunch_Always(est, roleId) == TRUE
\* if !establishing[roleId]
ShouldLaunch(est, roleId) == ~est[roleId]

\* A worker at its start; written and sent count its writes of this.nodes and
\* its sends on connectionEstablished, fails its failed dials (saturating).
NewWorker == [pc |-> "read", address |-> 0, connection |-> 0, fails |-> 0,
              written |-> 0, sent |-> 0]

\* (variant: connectionManager takes the lock around its update)
CM_BadConnection_Locked ==
    /\ ~crashed /\ registerBadConnection # << >> /\ exclude = "none"
    /\ LET roleId == Head(registerBadConnection) IN
        /\ registerBadConnection' = Tail(registerBadConnection)
        /\ IF ShouldLaunch(establishing, roleId)
           THEN /\ establishing' = [establishing EXCEPT ![roleId] = TRUE]
                /\ workers' = [workers EXCEPT ![roleId] = Append(@, NewWorker)]
           ELSE UNCHANGED <<establishing, workers>>
    /\ UNCHANGED <<regVars, exclude, connectVars, hbVars, result, notifyVars,
                   roundsLeft, callsLeft, wrapVars, constructVars>>
\* case roleId := <- this.registerBadConnection
CM_BadConnection ==
    /\ ~crashed /\ registerBadConnection # << >>
    /\ LET roleId == Head(registerBadConnection) IN
        /\ registerBadConnection' = Tail(registerBadConnection)
        /\ IF ShouldLaunch(establishing, roleId)
           THEN /\ establishing' = [establishing EXCEPT ![roleId] = TRUE]
                /\ workers' = [workers EXCEPT ![roleId] = Append(@, NewWorker)]
           ELSE UNCHANGED <<establishing, workers>>
    /\ UNCHANGED <<regVars, exclude, connectVars, hbVars, result, notifyVars,
                   roundsLeft, callsLeft, wrapVars, constructVars>>

\* ------------------------------------------------- establishConnection
WorkerAt(roleId, i, pc) ==
    /\ roleId \in RoleIds /\ i \in 1..Len(workers[roleId])
    /\ workers[roleId][i].pc = pc

SetWorker(roleId, i, w) == [workers EXCEPT ![roleId][i] = w]

\* Lock(); peer := this.nodes[roleId]; Unlock()
WK_Read(roleId, i) ==
    /\ ~crashed /\ WorkerAt(roleId, i, "read") /\ exclude = "none"
    /\ workers' = SetWorker(roleId, i,
          [workers[roleId][i] EXCEPT !.pc = "dial",
                                     !.address = Lookup(nodes, roleId).address])
    /\ UNCHANGED <<regVars, exclude, registerBadConnection, establishing,
                   connectVars, hbVars, result, notifyVars, roundsLeft,
                   callsLeft, wrapVars, constructVars>>

\* (variant: the failed attempt also sends on connectionEstablished)
WK_DialFail_Signals(roleId, i) ==
    /\ ~crashed /\ WorkerAt(roleId, i, "dial")
    /\ workers' = SetWorker(roleId, i,
          [workers[roleId][i] EXCEPT !.fails = Min(@ + 1, MaxFails),
                                     !.sent = @ + 1])
    /\ establishing' = [establishing EXCEPT ![roleId] = FALSE]
    /\ UNCHANGED <<regVars, exclude, registerBadConnection, connectVars,
                   hbVars, result, notifyVars, roundsLeft, callsLeft,
                   wrapVars, constructVars>>
\* rpc.Dial fails: time.Sleep(time.Second); continue
WK_DialFail(roleId, i) ==
    /\ ~crashed /\ WorkerAt(roleId, i, "dial")
    /\ workers' = SetWorker(roleId, i,
          [workers[roleId][i] EXCEPT !.fails = Min(@ + 1, MaxFails)])
    /\ UNCHANGED <<regVars, exclude, registerBadConnection, establishing,
                   connectVars, hbVars, result, notifyVars, roundsLeft,
                   callsLeft, wrapVars, constructVars>>

\* rpc.Dial returns a connection: this.exclude.Lock() is next.
WK_DialOk(roleId, i) ==
    /\ ~crashed /\ WorkerAt(roleId, i, "dial")
    /\ DialCanSucceed(workers[roleId][i].address)
    /\ workers' = SetWorker(roleId, i,
          [workers[roleId][i] EXCEPT !.pc = "lock", !.connection = 1])
    /\ UNCHANGED <<regVars, exclude, registerBadConnection, establishing,
                   connectVars, hbVars, result, notifyVars, roundsLeft,
                   callsLeft, wrapVars, constructVars>>

\* (variant: the peer is not read again under the lock; the worker writes back
\* a peer with the address it read at its start and requirePromise as built)
WK_Install_Overwrites(roleId, i) ==
    /\ ~crashed /\ WorkerAt(roleId, i, "lock") /\ exclude = "none"
    /\ exclude' = "establishConnection"
    /\ nodes' = Store(nodes, roleId,
          [address |-> workers[roleId][i].address,
           comm |-> workers[roleId][i].connection,
           requirePromise |-> TRUE])
    /\ workers' = SetWorker(roleId, i,
          [workers[roleId][i] EXCEPT !.pc = "signal", !.written = @ + 1])
    /\ UNCHANGED <<skipPromiseCount, registerBadConnection, establishing,
                   connectVars, hbVars, result, notifyVars, roundsLeft,
                   callsLeft, wrapVars, constructVars>>
\* Lock(); peer = this.nodes[roleId]; peer.comm = connection;
\* this.nodes[roleId] = peer; the send on connectionEstablished is next.
WK_Install(roleId, i) ==
    /\ ~crashed /\ WorkerAt(roleId, i, "lock") /\ exclude = "none"
    /\ exclude' = "establishConnection"
    /\ nodes' = Store(nodes, roleId,
          [Lookup(nodes, roleId) EXCEPT !.comm = workers[roleId][i].connection])
    /\ workers' = SetWorker(roleId, i,
          [workers[roleId][i] EXCEPT !.pc = "signal", !.written = @ + 1])
    /\ UNCHANGED <<skipPromiseCount, registerBadConnection, establishing,
                   connectVars, hbVars, result, notifyVars, roundsLeft,
                   callsLeft, wrapVars, constructVars>>

\* (variant: connectionManager receives the signal and leaves the mark set)
WK_Signal_KeepsMark(roleId, i) ==
    /\ ~crashed /\ WorkerAt(roleId, i, "signal")
    /\ workers' = SetWorker(roleId, i,
          [workers[roleId][i] EXCEPT !.pc = "unlock", !.sent = @ + 1])
    /\ UNCHANGED <<regVars, exclude, registerBadConnection, establishing,
                   connectVars, hbVars, result, notifyVars, roundsLeft,
                   callsLeft, wrapVars, constructVars>>
\* connectionEstablished <- roleId meets connectionManager's
\* case roleId := <- connectionEstablished: establishing[roleId] = false
WK_Signal(roleId, i) ==
    /\ ~crashed /\ WorkerAt(roleId, i, "signal")
    /\ establishing' = [establishing EXCEPT ![roleId] = FALSE]
    /\ workers' = SetWorker(roleId, i,
          [workers[roleId][i] EXCEPT !.pc = "unlock", !.sent = @ + 1])
    /\ UNCHANGED <<regVars, exclude, registerBadConnection, connectVars,
                   hbVars, result, notifyVars, roundsLeft, callsLeft,
                   wrapVars, constructVars>>

\* this.exclude.Unlock(); return
WK_Unlock(roleId, i) ==
    /\ ~crashed /\ WorkerAt(roleId, i, "unlock")
    /\ exclude' = "none"
    /\ workers' = [workers EXCEPT ![roleId] = RemoveAt(@, i)]
    /\ UNCHANGED <<regVars, registerBadConnection, establishing, connectVars,
                   hbVars, result, notifyVars, roundsLeft, callsLeft,
                   wrapVars, constructVars>>

\* ------------------------------------------- locked one-shot operations
OneShot == {"SetPromiseRequirement", "GetPeerCount", "GetSkipPromiseCount",
            "BroadcastPrepareRequest", "BroadcastProposalRequest"}

\* if peer.requirePromise != required { skipPromiseCount-- or ++ }
PromiseSkip(skip, peer, required) ==
    IF peer.requirePromise # required
    THEN (IF required THEN Dec(skip) ELSE Inc(skip))
    ELSE skip

\* Lock(); the body; the deferred Unlock() is Op_Return.
SetPromiseRequirement(roleId, required) ==
    /\ ~crashed /\ callsLeft > 0 /\ exclude = "none"
    /\ exclude' = "SetPromiseRequirement"
    /\ LET peer == Lookup(nodes, roleId) IN
        /\ skipPromiseCount' = PromiseSkip(skipPromiseCount, peer, required)
        /\ nodes' = Store(nodes, roleId, [peer EXCEPT !.requirePromise = required])
    /\ result' = [NoResult EXCEPT !.name = "SetPromiseRequirement"]
    /\ callsLeft' = callsLeft - 1
    /\ UNCHANGED <<registerBadConnection, cmVars, connectVars, hbVars,
                   notifyVars, roundsLeft, wrapVars, constructVars>>

\* return uint64(len(this.nodes))
GetPeerCount ==
    /\ ~crashed /\ callsLeft > 0 /\ exclude = "none"
    /\ exclude' = "GetPeerCount"
    /\ result' = [NoResult EXCEPT !.name = "GetPeerCount",
                                  !.count = Cardinality(DOMAIN nodes)]
    /\ callsLeft' = callsLeft - 1
    /\ UNCHANGED <<regVars, registerBadConnection, cmVars, connectVars,
                   hbVars, notifyVars, roundsLeft, wrapVars, constructVars>>

\* return this.skipPromiseCount
GetSkipPromiseCount ==
    /\ ~crashed /\ callsLeft > 0 /\ exclude = "none"
    /\ exclude' = "GetSkipPromiseCount"
    /\ result' = [NoResult EXCEPT !.name = "GetSkipPromiseCount",
                                  !.count = skipPromiseCount]
    /\ callsLeft' = callsLeft - 1
    /\ UNCHANGED <<regVars, registerBadConnection, cmVars, connectVars,
                   hbVars, notifyVars, roundsLeft, wrapVars, constructVars>>

\* (variant: <= for <)
PrepareNeeded_OffByOne(skip, nodeCount) == skip <= nodeCount \div 2 + 1
\* if this.skipPromiseCount < nodeCount/2+1
PrepareNeeded(skip, nodeCount) == skip < nodeCount \div 2 + 1

\* (variant: peer.comm != nil left out)
PrepareSends_NoCommCheck(peer) == peer.requirePromise
\* if peer.requirePromise && peer.comm != nil
PrepareSends(peer) == peer.requirePromise /\ peer.comm # 0

\* (variant: !filter[roleId] left out)
ProposalSends_NoFilter(filter, roleId, peer) == peer.comm # 0
\* if !filter[roleId] && peer.comm != nil
ProposalSends(filter, roleId, peer) == roleId \notin filter /\ peer.comm # 0

\* for _, peer := range this.nodes { if ... { peer.comm.Go(...); peerCount++ } }
RECURSIVE PrepareRange(_, _, _)
PrepareRange(ns, todo, acc) ==
    IF todo = {} THEN acc
    ELSE LET roleId == CHOOSE id \in todo : TRUE IN
         PrepareRange(ns, todo \ {roleId},
             IF PrepareSends(ns[roleId])
             THEN [sent |-> acc.sent \cup {roleId}, count |-> Inc(acc.count)]
             ELSE acc)

\* for roleId, peer := range this.nodes { if ... { peer.comm.Go(...); peerCount++ } }
RECURSIVE ProposalRange(_, _, _, _)
ProposalRange(ns, filter, todo, acc) ==
    IF todo = {} THEN acc
    ELSE LET roleId == CHOOSE id \in todo : TRUE IN
         ProposalRange(ns, filter, todo \ {roleId},
             IF ProposalSends(filter, roleId, ns[roleId])
             THEN [sent |-> acc.sent \cup {roleId}, count |-> Inc(acc.count)]
             ELSE acc)

NoneSent == [sent |-> {}, count |-> 0]

BroadcastPrepareRequest ==
    /\ ~crashed /\ callsLeft > 0 /\ exclude = "none"
    /\ exclude' = "BroadcastPrepareRequest"
    /\ LET out == IF PrepareNeeded(skipPromiseCount, Cardinality(DOMAIN nodes))
                  THEN PrepareRange(nodes, DOMAIN nodes, NoneSent)
                  ELSE NoneSent
       IN result' = [name |-> "BroadcastPrepareRequest", filter |-> {},
                     sent |-> out.sent, count |-> out.count]
    /\ callsLeft' = callsLeft - 1
    /\ UNCHANGED <<regVars, registerBadConnection, cmVars, connectVars,
                   hbVars, notifyVars, roundsLeft, wrapVars, constructVars>>

\* filter is the set of role-ids the map[uint64]bool marks true.
BroadcastProposalRequest(filter) ==
    /\ ~crashed /\ callsLeft > 0 /\ exclude = "none"
    /\ exclude' = "BroadcastProposalRequest"
    /\ LET out == ProposalRange(nodes, filter, DOMAIN nodes, NoneSent)
       IN result' = [name |-> "BroadcastProposalRequest", filter |-> filter,
                     sent |-> out.sent, count |-> out.count]
    /\ callsLeft' = callsLeft - 1
    /\ UNCHANGED <<regVars, registerBadConnection, cmVars, connectVars,
                   hbVars, notifyVars, roundsLeft, wrapVars, constructVars>>

\* The deferred this.exclude.Unlock() of a one-shot operation; it returns.
Op_Return ==
    /\ ~crashed /\ exclude \in OneShot
    /\ exclude' = "none"
    /\ result' = NoResult
    /\ UNCHANGED <<regVars, registerBadConnection, cmVars, connectVars,
                   hbVars, notifyVars, roundsLeft, callsLeft, wrapVars,
                   constructVars>>

\* --------------------------------------------------- BroadcastHeartbeat
\* Lock(); peerCount := len(this.nodes); peer.comm.Go(...) for every peer
\* with a connection: endpoint holds the calls in flight.
HB_Begin ==
    /\ ~crashed /\ roundsLeft > 0 /\ hbPc = "idle" /\ exclude = "none"
    /\ exclude' = "BroadcastHeartbeat"
    /\ hbPeerCount' = Cardinality(DOMAIN nodes)
    /\ endpoint' = {id \in DOMAIN nodes : nodes[id].comm # 0}
    /\ received' = {} /\ failures' = FALSE /\ replyCount' = 0
    /\ hbPc' = "collect"
    /\ hbPre' = nodes /\ hbPreSkip' = skipPromiseCount /\ hbQueued' = {}
    /\ roundsLeft' = roundsLeft - 1
    /\ UNCHANGED <<regVars, registerBadConnection, cmVars, connectVars,
                   hbTodo, hbCur, result, notifyVars, callsLeft, wrapVars,
                   constructVars>>

\* case reply := <- endpoint, reply.Error == nil: the peer answers its role-id.
HB_ReplyOk(id) ==
    /\ ~crashed /\ hbPc = "collect" /\ replyCount < hbPeerCount
    /\ id \in endpoint
    /\ endpoint' = endpoint \ {id}
    /\ received' = received \cup {id}
    /\ replyCount' = replyCount + 1
    /\ UNCHANGED <<regVars, exclude, registerBadConnection, cmVars,
                   connectVars, hbPc, hbPeerCount, failures, hbTodo, hbCur,
                   hbPre, hbPreSkip, hbQueued, result, notifyVars, roundsLeft,
                   callsLeft, wrapVars, constructVars>>

\* case reply := <- endpoint, reply.Error != nil
HB_ReplyError(id) ==
    /\ ~crashed /\ hbPc = "collect" /\ replyCount < hbPeerCount
    /\ id \in endpoint
    /\ endpoint' = endpoint \ {id}
    /\ failures' = TRUE
    /\ replyCount' = replyCount + 1
    /\ UNCHANGED <<regVars, exclude, registerBadConnection, cmVars,
                   connectVars, hbPc, hbPeerCount, received, hbTodo, hbCur,
                   hbPre, hbPreSkip, hbQueued, result, notifyVars, roundsLeft,
                   callsLeft, wrapVars, constructVars>>

\* case <- time.After(time.Second/2)
HB_Timeout ==
    /\ ~crashed /\ hbPc = "collect" /\ replyCount < hbPeerCount
    /\ failures' = TRUE
    /\ replyCount' = hbPeerCount
    /\ UNCHANGED <<regVars, exclude, registerBadConnection, cmVars,
                   connectVars, hbPc, hbPeerCount, endpoint, received, hbTodo,
                   hbCur, hbPre, hbPreSkip, hbQueued, result, notifyVars,
                   roundsLeft, callsLeft, wrapVars, constructVars>>

\* The collection loop is over: if failures { for roleId := range this.nodes
HB_Collected ==
    /\ ~crashed /\ hbPc = "collect" /\ replyCount >= hbPeerCount
    /\ endpoint' = {}
    /\ IF failures
       THEN hbPc' = "range" /\ hbTodo' = DOMAIN nodes
       ELSE hbPc' = "return" /\ hbTodo' = {}
    /\ UNCHANGED <<regVars, exclude, registerBadConnection, cmVars,
                   connectVars, hbPeerCount, received, failures, replyCount,
                   hbCur, hbPre, hbPreSkip, hbQueued, result, notifyVars,
                   roundsLeft, callsLeft, wrapVars, constructVars>>

\* (variant: the decrement made whatever requirePromise was)
DemoteSkip_Always(skip, peer) == Dec(skip)
\* if !peer.requirePromise { this.skipPromiseCount-- }
DemoteSkip(skip, peer) == IF ~peer.requirePromise THEN Dec(skip) ELSE skip

\* A key of the range with received[roleId]: nothing happens.
HB_Skip(roleId) ==
    /\ ~crashed /\ hbPc = "range" /\ roleId \in hbTodo
    /\ roleId \in received
    /\ hbTodo' = hbTodo \ {roleId}
    /\ UNCHANGED <<regVars, exclude, registerBadConnection, cmVars,
                   connectVars, hbPc, hbPeerCount, endpoint, received,
                   failures, replyCount, hbCur, hbPre, hbPreSkip, hbQueued,
                   result, notifyVars, roundsLeft, callsLeft, wrapVars,
                   constructVars>>

\* A key of the range with !received[roleId]: the peer is demoted and the send
\* on registerBadConnection is next.
HB_Demote(roleId) ==
    /\ ~crashed /\ hbPc = "range" /\ roleId \in hbTodo
    /\ roleId \notin received
    /\ hbTodo' = hbTodo \ {roleId}
    /\ LET peer == nodes[roleId] IN
        /\ skipPromiseCount' = DemoteSkip(skipPromiseCount, peer)
        /\ nodes' = Store(nodes, roleId, [peer EXCEPT !.requirePromise = TRUE])
    /\ hbCur' = roleId /\ hbPc' = "send"
    /\ UNCHANGED <<exclude, registerBadConnection, cmVars, connectVars,
                   hbPeerCount, endpoint, received, failures, replyCount,
                   hbPre, hbPreSkip, hbQueued, result, notifyVars, roundsLeft,
                   callsLeft, wrapVars, constructVars>>

\* this.registerBadConnection <- roleId: blocks while the buffer is full.
HB_Send ==
    /\ ~crashed /\ hbPc = "send"
    /\ Len(registerBadConnection) < QueueCap
    /\ registerBadConnection' = Append(registerBadConnection, hbCur)
    /\ hbQueued' = hbQueued \cup {hbCur}
    /\ hbPc' = "range" /\ hbCur' = 0
    /\ UNCHANGED <<regVars, exclude, cmVars, connectVars, hbPeerCount,
                   endpoint, received, failures, replyCount, hbTodo, hbPre,
                   hbPreSkip, result, notifyVars, roundsLeft, callsLeft,
                   wrapVars, constructVars>>

\* The range is over: the function is about to return.
HB_RangeDone ==
    /\ ~crashed /\ hbPc = "range" /\ hbTodo = {}
    /\ hbPc' = "return"
    /\ UNCHANGED <<regVars, exclude, registerBadConnection, cmVars,
                   connectVars, hbPeerCount, endpoint, received, failures,
                   replyCount, hbTodo, hbCur, hbPre, hbPreSkip, hbQueued,
                   result, notifyVars, roundsLeft, callsLeft, wrapVars,
                   constructVars>>

\* The deferred Unlock(); the round's locals are gone.
HB_Return ==
    /\ ~crashed /\ hbPc = "return"
    /\ exclude' = "none"
    /\ hbPc' = "idle" /\ hbPeerCount' = 0 /\ received' = {}
    /\ failures' = FALSE /\ replyCount' = 0
    /\ hbPre' = InitialPeers /\ hbPreSkip' = 0 /\ hbQueued' = {}
    /\ UNCHANGED <<regVars, registerBadConnection, cmVars, connectVars,
                   endpoint, hbTodo, hbCur, result, notifyVars, roundsLeft,
                   callsLeft, wrapVars, constructVars>>

\* ------------------------------------------------------ NotifyOfSuccess
\* Functions whose critical section writes this.nodes.
Writers == {"Connect", "BroadcastHeartbeat", "establishConnection",
            "SetPromiseRequirement"}

\* The call: endpoint is made; this.nodes[roleId] is evaluated next, with no
\* Lock() before it.
Notify_Call(roleId) ==
    /\ ~crashed /\ callsLeft > 0 /\ notifyPc = "idle"
    /\ notifyPc' = "read" /\ notifyRole' = roleId
    /\ callsLeft' = callsLeft - 1
    /\ UNCHANGED <<regVars, exclude, registerBadConnection, cmVars,
                   connectVars, hbVars, result, roundsLeft, wrapVars,
                   constructVars>>

\* this.nodes[roleId].comm.Go(...) on a connection: the call is dispatched,
\* wrapReply is started and the response channel returned.
Notify_Dispatch ==
    /\ ~crashed /\ notifyPc = "read"
    /\ Lookup(nodes, notifyRole).comm # 0
    /\ notifyPc' = "idle" /\ notifyRole' = 0
    /\ UNCHANGED <<regVars, exclude, registerBadConnection, cmVars,
                   connectVars, hbVars, result, roundsLeft, callsLeft,
                   wrapVars, constructVars>>

\* this.nodes[roleId].comm.Go(...) on the nil *rpc.Client: Go dereferences
\* its receiver and the process panics.
Notify_NilPanic ==
    /\ ~crashed /\ notifyPc = "read"
    /\ Lookup(nodes, notifyRole).comm = 0
    /\ notifyPc' = "panic"
    /\ UNCHANGED <<regVars, exclude, registerBadConnection, cmVars,
                   connectVars, hbVars, result, notifyRole, roundsLeft,
                   callsLeft, wrapVars, constructVars>>

\* The unlocked map read races with a critical section that writes the map:
\* besides reading a value, the runtime may stop the process (concurrent map
\* read and map write).
Notify_RaceFatal ==
    /\ ~crashed /\ notifyPc = "read"
    /\ exclude \in Writers
    /\ notifyPc' = "fatal"
    /\ UNCHANGED <<regVars, exclude, registerBadConnection, cmVars,
                   connectVars, hbVars, result, notifyRole, roundsLeft,
                   callsLeft, wrapVars, constructVars>>

\* ------------------------------------------------------------ wrapReply
\* The state of the Cluster, its callers, connectionManager and the workers.
clusterVars == <<regVars, exclude, registerBadConnection, cmVars, connectVars,
                 hbVars, result, notifyVars, roundsLeft, callsLeft>>

\* (variant: a reply is forwarded whatever its Error)
ReplyForwarded_Always(reply) == TRUE
\* if reply.Error == nil { forward <- Response{reply.Reply} }
ReplyForwarded(reply) == ~reply.error

\* for replyCount < peerCount { select { ... } }: the select is entered with a
\* new timer, time.After(2*time.Second), or the loop is over and wrapReply
\* returns.
LoopHead(count, peerCount) ==
    IF count < peerCount
    THEN wrPc' = "select" /\ wrDeadline' = clock + CollectWindow
    ELSE wrPc' = "done" /\ wrDeadline' = 0

\* go this.wrapReply(peerCount, endpoint, responses) of a broadcast that sent
\* peerCount requests, with responses := make(chan Response, peerCount).
WR_StartBroadcast(peerCount) ==
    /\ wrPc = "idle"
    /\ wrPeerCount' = peerCount /\ wrCap' = peerCount
    /\ wrPending' = 1..peerCount
    /\ LoopHead(0, peerCount)
    /\ UNCHANGED <<clusterVars, constructVars, wrEndpoint, wrReplyCount,
                   wrCur, wrConsumed, wrForward, wrTaken, clock>>

\* go this.wrapReply(1, endpoint, response) of NotifyOfSuccess, with
\* response := make(chan Response): the channel has no buffer.
WR_StartNotify ==
    /\ wrPc = "idle"
    /\ wrPeerCount' = 1 /\ wrCap' = 0
    /\ wrPending' = {1}
    /\ LoopHead(0, 1)
    /\ UNCHANGED <<clusterVars, constructVars, wrEndpoint, wrReplyCount,
                   wrCur, wrConsumed, wrForward, wrTaken, clock>>

\* net/rpc completes a call of the broadcast, with or without an error, and
\* puts it on endpoint (whose buffer holds every call of the broadcast).
RPC_Done(id, error) ==
    /\ id \in wrPending
    /\ wrPending' = wrPending \ {id}
    /\ wrEndpoint' = wrEndpoint \cup {[id |-> id, error |-> error]}
    /\ UNCHANGED <<clusterVars, constructVars, wrPc, wrPeerCount, wrCap,
                   wrReplyCount, wrCur, wrDeadline, wrConsumed, wrForward,
                   wrTaken, clock>>

\* The forward channel takes a send without a receiver: its buffer has room.
ForwardHasRoom == Len(wrForward) - wrTaken < wrCap

\* One second passes. A select with a reply on endpoint, a timer that has
\* expired and a send the channel can take do not wait.
Tick ==
    /\ wrPc \in {"select", "forward"} /\ clock < MaxClock
    /\ wrPc = "select" => (wrEndpoint = {} /\ clock < wrDeadline)
    /\ wrPc = "forward" => ~ForwardHasRoom
    /\ clock' = clock + 1
    /\ UNCHANGED <<clusterVars, constructVars, wrPc, wrPeerCount, wrCap,
                   wrPending, wrEndpoint, wrReplyCount, wrCur, wrDeadline,
                   wrConsumed, wrForward, wrTaken>>

\* case reply := <- endpoint, reply.Error == nil: the send on forward is next.
WR_ReceiveForward(reply) ==
    /\ wrPc = "select" /\ reply \in wrEndpoint
    /\ ReplyForwarded(reply)
    /\ wrEndpoint' = wrEndpoint \ {reply}
    /\ wrConsumed' = wrConsumed \cup {reply}
    /\ wrCur' = reply.id /\ wrPc' = "forward"
    /\ UNCHANGED <<clusterVars, constructVars, wrPeerCount, wrCap, wrPending,
                   wrReplyCount, wrDeadline, wrForward, wrTaken, clock>>

\* case reply := <- endpoint, reply.Error != nil: replyCount++
WR_ReceiveDrop(reply) ==
    /\ wrPc = "select" /\ reply \in wrEndpoint
    /\ ~ReplyForwarded(reply)
    /\ wrEndpoint' = wrEndpoint \ {reply}
    /\ wrConsumed' = wrConsumed \cup {reply}
    /\ wrReplyCount' = wrReplyCount + 1
    /\ LoopHead(wrReplyCount + 1, wrPeerCount)
    /\ UNCHANGED <<clusterVars, constructVars, wrPeerCount, wrCap, wrPending,
                   wrCur, wrForward, wrTaken, clock>>

\* forward <- Response{reply.Reply} into the buffer; replyCount++
WR_Forward ==
    /\ wrPc = "forward" /\ ForwardHasRoom
    /\ wrForward' = Append(wrForward, wrCur)
    /\ wrCur' = 0
    /\ wrReplyCount' = wrReplyCount + 1
    /\ LoopHead(wrReplyCount + 1, wrPeerCount)
    /\ UNCHANGED <<clusterVars, constructVars, wrPeerCount, wrCap, wrPending,
                   wrEndpoint, wrConsumed, wrTaken, clock>>

\* forward <- Response{reply.Reply} on the channel without a buffer meets the
\* caller's receive; replyCount++
WR_Handoff ==
    /\ wrPc = "forward" /\ wrCap = 0
    /\ wrForward' = Append(wrForward, wrCur)
    /\ wrTaken' = wrTaken + 1
    /\ wrCur' = 0
    /\ wrReplyCount' = wrReplyCount + 1
    /\ LoopHead(wrReplyCount + 1, wrPeerCount)
    /\ UNCHANGED <<clusterVars, constructVars, wrPeerCount, wrCap, wrPending,
                   wrEndpoint, wrConsumed, clock>>

\* case <- time.After(2*time.Second): return
WR_Timeout ==
    /\ wrPc = "select" /\ clock >= wrDeadline
    /\ wrPc' = "done" /\ wrDeadline' = 0
    /\ UNCHANGED <<clusterVars, constructVars, wrPeerCount, wrCap, wrPending,
                   wrEndpoint, wrReplyCount, wrCur, wrConsumed, wrForward,
                   wrTaken, clock>>

\* The caller of the broadcast receives a response from the buffer.
Caller_Receive ==
    /\ wrTaken < Len(wrForward)
    /\ wrTaken' = wrTaken + 1
    /\ UNCHANGED <<clusterVars, constructVars, wrPc, wrPeerCount, wrCap,
                   wrPending, wrEndpoint, wrReplyCount, wrCur, wrDeadline,
                   wrConsumed, wrForward, clock>>

\* ----------------------------------------------------- ConstructCluster
\* An entry of the address table: the host part of its address (0 is the
\* empty host), or an address net.SplitHostPort returns an error for.
Entries == [host : 0..MaxHost, malformed : BOOLEAN]

\* The tables disk.RetrieveAddresses() may return.
AddressTables == UNION {[keys -> Entries] : keys \in SUBSET (0..MaxKey)}

\* The role-ids a caller may pass: 0 asks for detection.
RoleArgs == 0..(MaxKey + 1)

\* disk.RetrieveAddresses(), os.Hostname() or net.LookupIP(name) returns an
\* error: return nil, 0, "", err
CC_EnvError ==
    /\ ccPc = "start"
    /\ ccPc' = "envError"
    /\ UNCHANGED <<clusterVars, wrapVars, ccAddresses, ccThisAddress, ccArg,
                   ccRoleId, ccTodo>>

\* roleId != 0: the detection is skipped; the Cluster is built with roleId as
\* it was passed and returned.
CC_Explicit ==
    /\ ccPc = "start" /\ ccRoleId # 0
    /\ ccPc' = "returned"
    /\ UNCHANGED <<clusterVars, wrapVars, ccAddresses, ccThisAddress, ccArg,
                   ccRoleId, ccTodo>>

\* if roleId == 0: thisAddress is found; the range over addresses starts.
CC_Detect ==
    /\ ccPc = "start" /\ ccRoleId = 0
    /\ ccPc' = "range" /\ ccTodo' = DOMAIN ccAddresses
    /\ UNCHANGED <<clusterVars, wrapVars, ccAddresses, ccThisAddress, ccArg,
                   ccRoleId>>

\* The next key of the range (in no fixed order): SplitHostPort fails and the
\* error is returned; or the host is thisAddress: roleId = id; break; or the
\* range goes on.
CC_Visit(id) ==
    /\ ccPc = "range" /\ id \in ccTodo
    /\ IF ccAddresses[id].malformed
       THEN ccPc' = "splitError" /\ UNCHANGED <<ccRoleId, ccTodo>>
       ELSE IF ccThisAddress = ccAddresses[id].host
            THEN ccPc' = "matched" /\ ccRoleId' = id /\ UNCHANGED ccTodo
            ELSE ccTodo' = ccTodo \ {id} /\ UNCHANGED <<ccPc, ccRoleId>>
    /\ UNCHANGED <<clusterVars, wrapVars, ccAddresses, ccThisAddress, ccArg>>

\* After the range: if roleId == 0 { return ... "Could not find address" };
\* else the Cluster is built and returned with roleId.
CC_Check ==
    /\ ccPc = "matched" \/ (ccPc = "range" /\ ccTodo = {})
    /\ ccPc' = IF ccRoleId = 0 THEN "notFound" ELSE "returned"
    /\ UNCHANGED <<clusterVars, wrapVars, ccAddresses, ccThisAddress, ccArg,
                   ccRoleId, ccTodo>>

\* ------------------------------------------------------------------ Next
Next ==
    \/ Connect_Begin
    \/ \E roleId \in RoleIds : Connect_Dial(roleId)
    \/ Connect_DialOk
    \/ Connect_DialFail
    \/ Connect_Send
    \/ Connect_Return
    \/ CM_BadConnection
    \/ \E roleId \in RoleIds : \E i \in 1..Len(workers[roleId]) : WK_Read(roleId, i)
    \/ \E roleId \in RoleIds : \E i \in 1..Len(workers[roleId]) : WK_DialFail(roleId, i)
    \/ \E roleId \in RoleIds : \E i \in 1..Len(workers[roleId]) : WK_DialOk(roleId, i)
    \/ \E roleId \in RoleIds : \E i \in 1..Len(workers[roleId]) : WK_Install(roleId, i)
    \/ \E roleId \in RoleIds : \E i \in 1..Len(workers[roleId]) : WK_Signal(roleId, i)
    \/ \E roleId \in RoleIds : \E i \in 1..Len(workers[roleId]) : WK_Unlock(roleId, i)
    \/ \E roleId \in RoleIds : \E required \in BOOLEAN :
          SetPromiseRequirement(roleId, required)
    \/ GetPeerCount
    \/ GetSkipPromiseCount
    \/ BroadcastPrepareRequest
    \/ \E filter \in Filters : BroadcastProposalRequest(filter)
    \/ Op_Return
    \/ HB_Begin
    \/ \E id \in RoleIds : HB_ReplyOk(id)
    \/ \E id \in RoleIds : HB_ReplyError(id)
    \/ HB_Timeout
    \/ HB_Collected
    \/ \E roleId \in RoleIds : HB_Skip(roleId)
    \/ \E roleId \in RoleIds : HB_Demote(roleId)
    \/ HB_Send
    \/ HB_RangeDone
    \/ HB_Return
    \/ \E roleId \in RoleIds : Notify_Call(roleId)
    \/ Notify_Dispatch
    \/ Notify_NilPanic
    \/ Notify_RaceFatal

Spec == Init /\ [][Next]_vars

\* Runs in which the callers make no BroadcastHeartbeat and no NotifyOfSuccess
\* call, and more of the others.
InitQuorum ==
    /\ InitCluster
    /\ roundsLeft = QuorumRounds
    /\ callsLeft = QuorumCalls
    /\ WrapIdle
    /\ ConstructReturned

NextQuorum ==
    \/ Connect_Begin
    \/ \E roleId \in RoleIds : Connect_Dial(roleId)
    \/ Connect_DialOk
    \/ Connect_DialFail
    \/ Connect_Send
    \/ Connect_Return
    \/ CM_BadConnection
    \/ \E roleId \in RoleIds : \E i \in 1..Len(workers[roleId]) : WK_Read(roleId, i)
    \/ \E roleId \in RoleIds : \E i \in 1..Len(workers[roleId]) : WK_DialFail(roleId, i)
    \/ \E roleId \in RoleIds : \E i \in 1..Len(workers[roleId]) : WK_DialOk(roleId, i)
    \/ \E roleId \in RoleIds : \E i \in 1..Len(workers[roleId]) : WK_Install(roleId, i)
    \/ \E roleId \in RoleIds : \E i \in 1..Len(workers[roleId]) : WK_Signal(roleId, i)
    \/ \E roleId \in RoleIds : \E i \in 1..Len(workers[roleId]) : WK_Unlock(roleId, i)
    \/ \E roleId \in RoleIds : \E required \in BOOLEAN :
          SetPromiseRequirement(roleId, required)
    \/ GetPeerCount
    \/ GetSkipPromiseCount
    \/ BroadcastPrepareRequest
    \/ \E filter \in Filters : BroadcastProposalRequest(filter)
    \/ Op_Return

SpecQuorum == InitQuorum /\ [][NextQuorum]_vars

\* Runs of one wrapReply goroutine beside a Cluster on which nothing is called.
InitCollect ==
    /\ InitCluster
    /\ roundsLeft = 0
    /\ callsLeft = 0
    /\ WrapIdle
    /\ ConstructReturned

NextCollect ==
    \/ \E peerCount \in 0..MaxSent : WR_StartBroadcast(peerCount)
    \/ WR_StartNotify
    \/ \E id \in 1..MaxSent : \E error \in BOOLEAN : RPC_Done(id, error)
    \/ Tick
    \/ \E reply \in wrEndpoint : WR_ReceiveForward(reply)
    \/ \E reply \in wrEndpoint : WR_ReceiveDrop(reply)
    \/ WR_Forward
    \/ WR_Handoff
    \/ WR_Timeout
    \/ Caller_Receive

SpecCollect == InitCollect /\ [][NextCollect]_vars

\* Runs of ConstructCluster on every address table, local address and roleId
\* argument of the bounds; peers is built from the table (lines 39-48) and no
\* operation is called.
InitConstruct ==
    /\ ccAddresses \in AddressTables
    /\ ccThisAddress \in 0..MaxHost
    /\ ccArg \in RoleArgs
    /\ ccRoleId = ccArg
    /\ ccPc = "start" /\ ccTodo = {}
    /\ InitClusterOf(PeersOf(ccAddresses))
    /\ roundsLeft = 0
    /\ callsLeft = 0
    /\ WrapIdle

NextConstruct ==
    \/ CC_EnvError
    \/ CC_Explicit
    \/ CC_Detect
    \/ \E id \in 0..MaxKey : CC_Visit(id)
    \/ CC_Check

SpecConstruct == InitConstruct /\ [][NextConstruct]_vars

\* Runs in which the callers make Connect and BroadcastHeartbeat calls only,
\* under the scheduling the Go runtime gives: a function that can take a step
\* takes one, connectionManager's select receives what is sent to it, a task
\* waiting in Lock() gets the mutex once it stays free (sync.Mutex gives
\* more: it hands the mutex to a starving waiter), and a worker's dial to a
\* real address succeeds in the end.
InitRepair ==
    /\ InitCluster
    /\ roundsLeft = RepairRounds
    /\ callsLeft = 0
    /\ WrapIdle
    /\ ConstructReturned

\* The steps of a Connect call after its Lock().
ConnectRuns ==
    \/ \E roleId \in RoleIds : Connect_Dial(roleId)
    \/ Connect_DialOk
    \/ Connect_DialFail
    \/ Connect_Send
    \/ Connect_Return

\* The steps of a BroadcastHeartbeat call after its Lock().
HeartbeatRuns ==
    \/ \E id \in RoleIds : HB_ReplyOk(id)
    \/ \E id \in RoleIds : HB_ReplyError(id)
    \/ HB_Timeout
    \/ HB_Collected
    \/ \E roleId \in RoleIds : HB_Skip(roleId)
    \/ \E roleId \in RoleIds : HB_Demote(roleId)
    \/ HB_Send
    \/ HB_RangeDone
    \/ HB_Return

NextRepair ==
    \/ Connect_Begin
    \/ \E roleId \in RoleIds : Connect_Dial(roleId)
    \/ Connect_DialOk
    \/ Connect_DialFail
    \/ Connect_Send
    \/ Connect_Return
    \/ CM_BadConnection
    \/ \E roleId \in RoleIds : \E i \in 1..Len(workers[roleId]) : WK_Read(roleId, i)
    \/ \E roleId \in RoleIds : \E i \in 1..Len(workers[roleId]) : WK_DialFail(roleId, i)
    \/ \E roleId \in RoleIds : \E i \in 1..Len(workers[roleId]) : WK_DialOk(roleId, i)
    \/ \E roleId \in RoleIds : \E i \in 1..Len(workers[roleId]) : WK_Install(roleId, i)
    \/ \E roleId \in RoleIds : \E i \in 1..Len(workers[roleId]) : WK_Signal(roleId, i)
    \/ \E roleId \in RoleIds : \E i \in 1..Len(workers[roleId]) : WK_Unlock(roleId, i)
    \/ HB_Begin
    \/ \E id \in RoleIds : HB_ReplyOk(id)
    \/ \E id \in RoleIds : HB_ReplyError(id)
    \/ HB_Timeout
    \/ HB_Collected
    \/ \E roleId \in RoleIds : HB_Skip(roleId)
    \/ \E roleId \in RoleIds : HB_Demote(roleId)
    \/ HB_Send
    \/ HB_RangeDone
    \/ HB_Return

FairRepair ==
    /\ WF_vars(ConnectRuns)
    /\ WF_vars(HeartbeatRuns)
    /\ WF_vars(CM_BadConnection)
    /\ \A roleId \in Members :
          /\ WF_vars(\E i \in 1..Len(workers[roleId]) : WK_Read(roleId, i))
          /\ WF_vars(\E i \in 1..Len(workers[roleId]) : WK_DialOk(roleId, i))
          /\ WF_vars(\E i \in 1..Len(workers[roleId]) : WK_Install(roleId, i))
          /\ WF_vars(\E i \in 1..Len(workers[roleId]) : WK_Signal(roleId, i))
          /\ WF_vars(\E i \in 1..Len(workers[roleId]) : WK_Unlock(roleId, i))

SpecRepair == InitRepair /\ [][NextRepair]_vars /\ FairRepair

\* ------------------------------------------------------------ properties
\* The number of peers of the registry with requirePromise = false.
SkipCount(ns) == Cardinality({id \in DOMAIN ns : ~ns[id].requirePromise})

\* floor(N/2)+1 for the N peers of the registry.
Majority(ns) == Cardinality(DOMAIN ns) \div 2 + 1

\* The workers of a peer that have not yet sent on connectionEstablished.
Repairing(roleId) ==
    Cardinality({i \in 1..Len(workers[roleId]) : workers[roleId][i].pc # "unlock"})

\* C1: in every reachable state skipPromiseCount equals the number of peers in
\* the registry whose requirePromise is false, whatever role-id and boolean
\* SetPromiseRequirement is called with, and it never wraps below zero.
C1_SkipCountMatchesRegistry == skipPromiseCount = SkipCount(nodes)

\* C2: BroadcastPrepareRequest called with skipPromiseCount >= floor(N/2)+1
\* sends no Prepare call and returns the count 0. (The lock is still held when
\* result is set, so nodes and skipPromiseCount are those of the call.)
C2_PrepareSkippedAtMajority ==
    (result.name = "BroadcastPrepareRequest" /\ skipPromiseCount >= Majority(nodes))
        => (result.sent = {} /\ result.count = 0)

\* A Prepare broadcast that sent nothing although a connected peer still
\* requires a promise, with a true majority of peers skipped.
C2_Witness ==
    /\ result.name = "BroadcastPrepareRequest"
    /\ skipPromiseCount = SkipCount(nodes)
    /\ skipPromiseCount >= Majority(nodes)
    /\ \E id \in DOMAIN nodes : nodes[id].requirePromise /\ nodes[id].comm # 0
    /\ result.sent = {}

\* C3: BroadcastPrepareRequest called with skipPromiseCount < floor(N/2)+1
\* sends a Prepare call to exactly the peers with requirePromise = true and a
\* connection handle, and returns the size of that set.
C3_PrepareTargetsExact ==
    (result.name = "BroadcastPrepareRequest" /\ skipPromiseCount < Majority(nodes))
        => /\ result.sent = {id \in DOMAIN nodes :
                                nodes[id].requirePromise /\ nodes[id].comm # 0}
           /\ result.count = Cardinality(result.sent)

\* A Prepare broadcast below the majority that sent to some peer, left out a
\* peer with no connection and left out a connected peer that is skipped.
C3_Witness ==
    /\ result.name = "BroadcastPrepareRequest"
    /\ skipPromiseCount < Majority(nodes)
    /\ result.sent # {}
    /\ \E id \in DOMAIN nodes : nodes[id].requirePromise /\ nodes[id].comm = 0
    /\ \E id \in DOMAIN nodes : ~nodes[id].requirePromise /\ nodes[id].comm # 0

\* C4: BroadcastProposalRequest sends an Accept call to exactly the peers not
\* marked in the filter that have a connection handle, and returns the size of
\* that set; requirePromise plays no part.
C4_ProposalHonorsFilter ==
    result.name = "BroadcastProposalRequest"
        => /\ result.sent = {id \in DOMAIN nodes :
                                id \notin result.filter /\ nodes[id].comm # 0}
           /\ result.count = Cardinality(result.sent)

\* An Accept broadcast that sent to a skipped peer, left out a connected peer
\* the filter marks and left out an unmarked peer with no connection.
C4_Witness ==
    /\ result.name = "BroadcastProposalRequest"
    /\ \E id \in result.sent : ~nodes[id].requirePromise
    /\ \E id \in result.filter : id \in DOMAIN nodes /\ nodes[id].comm # 0
    /\ \E id \in DOMAIN nodes : id \notin result.filter /\ nodes[id].comm = 0

\* C5: when a BroadcastHeartbeat round has observed failures, at its return
\* every peer that did not reply has requirePromise = true, is otherwise as
\* before the round and was sent on registerBadConnection; every peer that
\* replied is unchanged and was not sent; skipPromiseCount went down by one for
\* each peer that did not reply and had requirePromise = false before.
C5_HeartbeatDemotesSilentPeers ==
    (hbPc = "return" /\ failures)
        => /\ DOMAIN nodes = DOMAIN hbPre
           /\ \A id \in DOMAIN nodes :
                IF id \in received
                THEN nodes[id] = hbPre[id] /\ id \notin hbQueued
                ELSE /\ nodes[id] = [hbPre[id] EXCEPT !.requirePromise = TRUE]
                     /\ id \in hbQueued
           /\ skipPromiseCount =
                (hbPreSkip + UintMod
                   - Cardinality({id \in DOMAIN hbPre :
                                     id \notin received /\ ~hbPre[id].requirePromise}))
                % UintMod

\* A round at its return in which a connected, skipped peer did not reply and
\* another peer did.
C5_Witness ==
    /\ hbPc = "return" /\ failures
    /\ \E id \in DOMAIN hbPre :
          id \notin received /\ ~hbPre[id].requirePromise /\ hbPre[id].comm # 0
    /\ received # {}

\* C6 as stated: for every peer at most one establishConnection task exists at
\* any time.
C6_AtMostOneWorkerTask == \A id \in RoleIds : Len(workers[id]) <= 1

\* C6 as amended: for every peer at most one worker that has not yet sent its
\* repaired signal exists at any time, and connectionManager receiving a
\* notification for a peer marked in establishing starts no worker and changes
\* neither establishing nor the registry nor the lock.
C6_OneRepairInProgress ==
    [][ /\ \A id \in RoleIds : Repairing(id)' <= 1
        /\ ( /\ registerBadConnection # << >>
             /\ registerBadConnection' = Tail(registerBadConnection)
             /\ establishing[Head(registerBadConnection)] )
           => UNCHANGED <<establishing, workers, nodes, skipPromiseCount, exclude>>
      ]_vars

\* Two rounds have each sent the same peer on registerBadConnection (it never
\* had a connection), connectionManager has received both, and one worker is
\* repairing it.
C6_Witness ==
    /\ roundsLeft + 2 <= MaxRounds
    /\ connectPc = "idle" /\ hbPc = "idle" /\ registerBadConnection = << >>
    /\ \E id \in Members :
          /\ nodes[id].comm = 0
          /\ establishing[id]
          /\ Len(workers[id]) = 1

\* C7: a worker writes the registry and sends on connectionEstablished only
\* after a dial that succeeded, however many failed before it: it then writes
\* its connection into nodes[roleId] once and sends once, holding the lock from
\* the write to the send and after it.
C7_WorkerInstallsAndSignalsOnce ==
    /\ \A id \in RoleIds : \A i \in 1..Len(workers[id]) :
          LET w == workers[id][i] IN
          /\ w.pc \in {"read", "dial", "lock"} => (w.written = 0 /\ w.sent = 0)
          /\ w.pc = "signal"
                => /\ w.written = 1 /\ w.sent = 0
                   /\ exclude = "establishConnection"
                   /\ w.connection # 0
                   /\ Lookup(nodes, id).comm = w.connection
          /\ w.pc = "unlock"
                => /\ w.written = 1 /\ w.sent = 1
                   /\ exclude = "establishConnection"
                   /\ Lookup(nodes, id).comm = w.connection
    /\ \A id1 \in RoleIds, id2 \in RoleIds :
          \A i1 \in 1..Len(workers[id1]), i2 \in 1..Len(workers[id2]) :
              ( /\ workers[id1][i1].pc \in {"signal", "unlock"}
                /\ workers[id2][i2].pc \in {"signal", "unlock"} )
                  => (id1 = id2 /\ i1 = i2)

\* A worker whose dial failed and then succeeded has installed its connection
\* and sent its signal.
C7_Witness ==
    \E id \in RoleIds : \E i \in 1..Len(workers[id]) :
        /\ workers[id][i].pc = "unlock"
        /\ workers[id][i].fails >= 1
        /\ workers[id][i].sent = 1
        /\ nodes[id].comm # 0

\* C8: NotifyOfSuccess for a peer whose connection handle is absent ends in a
\* failure its caller can tell from a dispatched call, and the process goes on.
C8_NotifyAbsentHandleFails ==
    (notifyPc \notin {"idle", "read"} /\ Lookup(nodes, notifyRole).comm = 0)
        => (notifyPc = "failed" /\ ~crashed)

\* C9: every task that reads or writes nodes or skipPromiseCount holds the
\* lock while it does, so no task reads the registry while another is in a
\* critical section that writes it.
C9_RegistryAccessUnderLock ==
    /\ notifyPc = "read" => exclude = "NotifyOfSuccess"
    /\ connectPc # "idle" => exclude = "Connect"
    /\ hbPc # "idle" => exclude = "BroadcastHeartbeat"
    /\ result.name # "none" => exclude = result.name
    /\ \A id \in RoleIds : \A i \in 1..Len(workers[id]) :
          workers[id][i].pc \in {"signal", "unlock"} => exclude = "establishConnection"

\* C10: no task holds the lock while it is in a dial, in the wait for the
\* heartbeat replies or its timer, or at a channel send.
C10_NoLockAcrossBlocking ==
    /\ connectPc \in {"dial", "send"} => exclude # "Connect"
    /\ hbPc \in {"collect", "send"} => exclude # "BroadcastHeartbeat"
    /\ \A id \in RoleIds : \A i \in 1..Len(workers[id]) :
          workers[id][i].pc = "signal" => exclude # "establishConnection"

\* The replies wrapReply has consumed that completed without error.
ConsumedOk == {reply \in wrConsumed : ~reply.error}

\* C11: wrapReply started for k sent requests forwards only replies that
\* completed without error, each at most once and at most k in all; a reply
\* with an error is counted in replyCount and not forwarded; when wrapReply has
\* stopped, the responses forwarded are the error-free replies it consumed.
C11_CollectorForwardsErrorFreeOnce ==
    /\ \A i \in 1..Len(wrForward) :
          [id |-> wrForward[i], error |-> FALSE] \in wrConsumed
    /\ \A i \in 1..Len(wrForward) : \A j \in 1..Len(wrForward) :
          wrForward[i] = wrForward[j] => i = j
    /\ Len(wrForward) <= wrPeerCount
    /\ wrReplyCount <= wrPeerCount
    /\ wrReplyCount =
          Cardinality(wrConsumed) - (IF wrPc = "forward" THEN 1 ELSE 0)
    /\ wrPc = "done" => Len(wrForward) = Cardinality(ConsumedOk)
    /\ wrPc = "done" => {wrForward[i] : i \in 1..Len(wrForward)}
                           = {reply.id : reply \in ConsumedOk}

\* wrapReply of a broadcast has stopped by its timer after it consumed a reply
\* with an error and forwarded an error-free one, a third call still pending.
C11_Witness ==
    /\ wrPc = "done" /\ wrCap = wrPeerCount /\ wrPeerCount = 3
    /\ \E reply \in wrConsumed : reply.error
    /\ Len(wrForward) = 1
    /\ wrPending # {}

\* C12: wrapReply stops listening no later than CollectWindow (2 seconds)
\* after the call started (the clock is 0 at the start), whatever the arrival
\* pattern of the replies, and does not block for ever.
C12_CollectionEndsWithinWindow ==
    wrPc \in {"select", "forward"} => clock <= CollectWindow

\* C13: the key set of the registry is the one ConstructCluster built, in
\* every reachable state, and GetPeerCount returns its size.
C13_RegistryKeysFixed ==
    /\ DOMAIN nodes = Members
    /\ result.name = "GetPeerCount" => result.count = NumPeers

\* C14: a peer has no connection handle before the first dial to it succeeds,
\* and a peer that did not reply in a heartbeat round that observed failures
\* has no connection handle when the round returns (the lock is still held, so
\* no worker has installed a new one), so that no call is sent to it before a
\* worker repairs it.
C14_HandleAbsentAfterFailure ==
    /\ (roundsLeft = MaxRounds /\ connectPc = "idle")
          => \A id \in DOMAIN nodes : nodes[id].comm = 0
    /\ (hbPc = "return" /\ failures)
          => \A id \in DOMAIN nodes : id \notin received => nodes[id].comm = 0

\* C15: Connect has no failing outcome: in its range every peer it has been
\* through has a connection handle or was sent on registerBadConnection by this
\* call, a failed dial being followed by the dials to the peers left; so at
\* its return (the range over, connectTodo empty) this is so for every peer.
C15_ConnectSettlesEveryPeer ==
    /\ connectPc \in {"idle", "range", "dial", "send"}
    /\ connectQueued \cap connectTodo = {}
    /\ connectPc = "range"
          => \A id \in (DOMAIN nodes) \ connectTodo :
                nodes[id].comm # 0 \/ id \in connectQueued
    /\ connectPc \in {"dial", "send"}
          => \A id \in (DOMAIN nodes) \ (connectTodo \cup {connectCur}) :
                nodes[id].comm # 0 \/ id \in connectQueued

\* A Connect call about to return after a failed dial to one peer, sent on
\* registerBadConnection, and a dial that succeeded to another peer that had
\* no handle before.
C15_Witness ==
    /\ connectPc = "range" /\ connectTodo = {}
    /\ \E id \in DOMAIN nodes : id \in connectQueued /\ nodes[id].comm = 0
    /\ \E id \in DOMAIN nodes : id \notin connectQueued /\ nodes[id].comm # 0
    /\ roundsLeft = RepairRounds - 1

\* The keys of the table whose host part is the detected local address.
Matching ==
    {id \in DOMAIN ccAddresses :
        ~ccAddresses[id].malformed /\ ccAddresses[id].host = ccThisAddress}

\* A table of well-formed addresses under non-zero role-ids.
ValidTable ==
    /\ 0 \notin DOMAIN ccAddresses
    /\ \A id \in DOMAIN ccAddresses : ~ccAddresses[id].malformed

\* C16: ConstructCluster fails or returns a non-zero role-id that is a key of
\* the address table. Called with roleId = 0 on a valid table holding the
\* local address exactly once it does not fail with address-not-found and
\* returns the matching key; on a valid table with no matching entry it does
\* not return; called with a non-zero roleId it returns that roleId, and only
\* if it is a key of the table.
C16_ConstructResolvesIdentity ==
    /\ ccPc = "returned" => (ccRoleId # 0 /\ ccRoleId \in DOMAIN ccAddresses)
    /\ (ccArg = 0 /\ ValidTable /\ Cardinality(Matching) = 1)
          => /\ ccPc \notin {"notFound", "splitError"}
             /\ ccPc = "returned" => ccRoleId \in Matching
    /\ (ccArg = 0 /\ ValidTable /\ Matching = {})
          => ccPc \notin {"returned", "splitError"}
    /\ (ccArg # 0 /\ ccPc = "returned")
          => (ccRoleId = ccArg /\ ccArg \in DOMAIN ccAddresses)

\* C17: under the scheduling of SpecRepair, connectionManager receives every
\* role-id sent on registerBadConnection (the channel is first-in first-out:
\* whenever it holds n role-ids it comes to hold fewer); a member marked in
\* establishing, whose dial succeeds in the end, gets a connection handle and
\* its mark is cleared; and a role-id received while its mark is clear marks
\* it and starts a new worker.
C17_RepairIsLive ==
    /\ \A n \in 1..QueueCap :
          (Len(registerBadConnection) = n) ~> (Len(registerBadConnection) < n)
    /\ \A id \in Members :
          establishing[id] ~> (~establishing[id] /\ nodes[id].comm # 0)
    /\ [][ \A id \in Members :
             ( /\ registerBadConnection # << >>
               /\ Head(registerBadConnection) = id
               /\ registerBadConnection' = Tail(registerBadConnection)
               /\ ~establishing[id] )
                => /\ establishing'[id]
                   /\ workers'[id] = Append(workers[id], NewWorker)
         ]_vars

\* A peer was repaired, its mark cleared while the worker had not yet
\* returned, and a later notification for it has started a second worker.
C17_Witness ==
    \E id \in Members :
        /\ Len(workers[id]) = 2
        /\ workers[id][1].pc = "unlock" /\ workers[id][1].sent = 1
        /\ workers[id][2] = NewWorker
        /\ establishing[id]
        /\ nodes[id].comm # 0

\* C18: a step that changes skipPromiseCount or the requirePromise of a
\* role-id is a step of SetPromiseRequirement or the demotion of a
\* BroadcastHeartbeat round; every other step leaves both as they are. The
\* install of a worker (Lock() to the write of this.nodes[roleId]) changes
\* nothing but the connection handle of its own peer, so the requirePromise it
\* writes back is the one in the registry at the install.
C18_PromiseStateFrame ==
    [][ /\ ( \/ skipPromiseCount' # skipPromiseCount
             \/ \E id \in RoleIds :
                   Lookup(nodes', id).requirePromise
                      # Lookup(nodes, id).requirePromise )
           => \/ (exclude = "none" /\ exclude' = "SetPromiseRequirement")
              \/ (exclude = "BroadcastHeartbeat" /\ hbPc = "range" /\ hbPc' = "send")
        /\ \A id \in RoleIds : \A i \in 1..Len(workers[id]) :
              ( /\ workers[id][i].pc = "lock"
                /\ Len(workers'[id]) = Len(workers[id])
                /\ workers'[id][i].pc = "signal" )
                 => /\ DOMAIN nodes' = DOMAIN nodes
                    /\ \A k \in DOMAIN nodes : k # id => nodes'[k] = nodes[k]
                    /\ nodes'[id].requirePromise = nodes[id].requirePromise
                    /\ nodes'[id].address = nodes[id].address
                    /\ nodes'[id].comm = workers[id][i].connection
                    /\ skipPromiseCount' = skipPromiseCount
      ]_vars

\* A worker has installed its connection for a peer that SetPromiseRequirement
\* had set to requirePromise = false: the peer is still counted as skipped.
C18_Witness ==
    \E id \in Members : \E i \in 1..Len(workers[id]) :
        /\ workers[id][i].pc = "signal"
        /\ ~nodes[id].requirePromise
        /\ nodes[id].comm # 0
        /\ skipPromiseCount = 1

\* C19: a task that holds the lock and waits at a channel send (Connect or
\* BroadcastHeartbeat at a full registerBadConnection, a worker at
\* connectionEstablished) gets past the send, connectionManager receiving; and
\* connectionManager can receive from registerBadConnection whenever it holds
\* a role-id, whoever holds the lock.
C19_NoDeadlockOnLockAndChannels ==
    /\ (connectPc = "send") ~> (connectPc # "send")
    /\ (hbPc = "send") ~> (hbPc # "send")
    /\ \A id \in Members :
          (\E i \in 1..Len(workers[id]) : workers[id][i].pc = "signal")
             ~> (\A i \in 1..Len(workers[id]) : workers[id][i].pc # "signal")
    /\ [](registerBadConnection # << >> => ENABLED CM_BadConnection)

\* Every dial of a Connect call failed, more than registerBadConnection holds:
\* Connect waits at its send with the lock while the buffer is full, and a
\* worker of an earlier round waits for the lock.
C19_Witness ==
    /\ connectPc = "send" /\ exclude = "Connect"
    /\ Len(registerBadConnection) = QueueCap
    /\ Cardinality(connectQueued) = QueueCap
    /\ \E id \in Members : \E i \in 1..Len(workers[id]) :
          workers[id][i].pc = "lock"

\* C20: a BroadcastHeartbeat round in which every peer that had a connection
\* handle at its start (every peer a heartbeat was sent to) replied without
\* error observes no failures: at its return no peer is changed,
\* skipPromiseCount is as before and nothing was sent on registerBadConnection,
\* also when other peers have no handle.
C20_QuietRoundObservesNoFailures ==
    ( /\ hbPc = "return"
      /\ received = {id \in DOMAIN hbPre : hbPre[id].comm # 0} )
        => /\ ~failures
           /\ nodes = hbPre
           /\ skipPromiseCount = hbPreSkip
           /\ hbQueued = {}

====
